---- MODULE Spec2Model ----
(***************************************************************************)
(* A model of AurSearchBot: the query key (request.rs, Search), the        *)
(* cached search (request.rs and main.rs, cached_search), the TTL cache it *)
(* uses (retainer::Cache, an external crate: get / insert / monitor) and   *)
(* the inline query handler with its pager (handlers.rs and main.rs).      *)
(*                                                                         *)
(* The source tree holds two handlers: handlers.rs with request.rs (the    *)
(* typed Search key, 60 s TTL, sorting) and main.rs (its own               *)
(* cached_search on the raw query, 30 s TTL, slice based pager).  The      *)
(* variable rev says which of the two serves the requests of a behaviour.  *)
(*                                                                         *)
(* Strings are sequences of one-character strings, so that starts_with,    *)
(* replace and parse are computed character by character.                  *)
(***************************************************************************)
EXTENDS Integers, Sequences, FiniteSets, TLC

\* ------------------------------------------------------------------ bounds
\* longest raw query typed in KeySpec
MaxLen == 7
\* usize is 64 bits wide on the targets of the program; the model keeps the
\* wrap-around of usize arithmetic at a width TLC's integers can hold
UsizeBits == 8
\* longest result list of PagerSpec
MaxItems == 101
\* longest offset text of PagerSpec
MaxOffsetLen == 3
\* the clock stops after MaxTicks ticks
MaxTicks == 2
\* inline queries served in one behaviour of Spec
MaxRequests == 3

\* ------------------------------------------------------- program constants
PageSize == 50
CacheTtl == 60
MainTtl == 30

UsizeMax == 2 ^ UsizeBits - 1

Min(a, b) == IF a < b THEN a ELSE b

\* ----------------------------------------------------------------- strings
Chars == {"!", "m", " ", "a"}
Prefix == <<"!", "m", " ">>

\* str::starts_with
StartsWith(s, p) == Len(s) >= Len(p) /\ SubSeq(s, 1, Len(p)) = p

Drop(s, n) == SubSeq(s, n + 1, Len(s))

\* str::replace(p, ""): every non-overlapping match of p, found left to
\* right, is removed
RECURSIVE RemoveAll(_, _)
RemoveAll(s, p) ==
    IF s = <<>> THEN <<>>
    ELSE IF StartsWith(s, p) THEN RemoveAll(Drop(s, Len(p)), p)
    ELSE <<Head(s)>> \o RemoveAll(Tail(s), p)

\* Search::from
SearchFrom(query) ==
    IF StartsWith(query, Prefix)
    THEN [kind |-> "Maintainer", text |-> RemoveAll(query, Prefix)]
    ELSE [kind |-> "Package", text |-> query]

\* impl Deref for Search: the String inside either variant
Deref(search) == search.text

\* ---------------------------------------------------------- field parsing
\* a description, maintainer or URL field of the payload: null or a string
EscChars == {"<", ">", "&", "a"}
NullField == [null |-> TRUE]
TextField(s) == [null |-> FALSE, text |-> s]

\* REGEX.find(&string) with the pattern [<>&]: the position of the first
\* match, 0 for none
RECURSIVE FirstMatch(_)
FirstMatch(string) ==
    IF string = <<>> THEN 0
    ELSE IF Head(string) \in {"<", ">", "&"} THEN 1
    ELSE LET rest == FirstMatch(Tail(string))
         IN  IF rest = 0 THEN 0 ELSE rest + 1

\* a faulty variant of EscapeChar: the ampersand is pushed as it is
EscapeCharNoAmp(c) ==
    CASE c = "<" -> <<"&", "l", "t", ";">>
      [] c = ">" -> <<"&", "g", "t", ";">>
      [] OTHER -> <<c>>

\* the match on c in the loop: what is pushed to output
EscapeChar(c) ==
    CASE c = "<" -> <<"&", "l", "t", ";">>
      [] c = ">" -> <<"&", "g", "t", ";">>
      [] c = "&" -> <<"&", "a", "m", "p", ";">>
      [] OTHER -> <<c>>

\* for c in rest { .. }
RECURSIVE EscapeRest(_)
EscapeRest(rest) ==
    IF rest = <<>> THEN <<>>
    ELSE EscapeChar(Head(rest)) \o EscapeRest(Tail(rest))

\* null_to_none: a field that does not deserialize to a String is "None";
\* with a match, the text before the first match is copied and the rest
\* goes through the loop; with none the string is returned as it is
NullToNone(field) ==
    LET string == IF field.null THEN <<"N", "o", "n", "e">> ELSE field.text
        first == FirstMatch(string)
    IN  IF first # 0
        THEN SubSeq(string, 1, first - 1)
                 \o EscapeRest(SubSeq(string, first, Len(string)))
        ELSE string

\* ------------------------------------------------------------ offset text
OffsetChars == {"0", "2", "5", "a", "+"}
Digits == {"0", "1", "2", "3", "4", "5", "6", "7", "8", "9"}
DigitVal(c) ==
    CASE c = "0" -> 0 [] c = "1" -> 1 [] c = "2" -> 2 [] c = "3" -> 3
      [] c = "4" -> 4 [] c = "5" -> 5 [] c = "6" -> 6 [] c = "7" -> 7
      [] c = "8" -> 8 [] c = "9" -> 9

ParseErr == -1

\* the digit loop of usize::from_str: an invalid digit or a value above
\* usize::MAX (checked_mul, checked_add) is an error
RECURSIVE ParseDigits(_, _)
ParseDigits(s, acc) ==
    IF s = <<>> THEN acc
    ELSE IF Head(s) \notin Digits THEN ParseErr
    ELSE LET v == acc * 10 + DigitVal(Head(s))
         IN  IF v > UsizeMax THEN ParseErr ELSE ParseDigits(Tail(s), v)

\* str::parse::<usize>: empty text and a lone sign are errors, one leading
\* "+" is accepted
ParseUsize(text) ==
    IF text = <<>> THEN ParseErr
    ELSE IF Head(text) = "+"
         THEN IF Tail(text) = <<>> THEN ParseErr ELSE ParseDigits(Tail(text), 0)
         ELSE ParseDigits(text, 0)

\* update.offset.parse::<usize>().unwrap_or_default()
ParseOffset(text) ==
    IF ParseUsize(text) = ParseErr THEN 0 ELSE ParseUsize(text)

\* offset.to_string(): the decimal digits of the offset
DigitChar(d) ==
    CASE d = 0 -> "0" [] d = 1 -> "1" [] d = 2 -> "2" [] d = 3 -> "3"
      [] d = 4 -> "4" [] d = 5 -> "5" [] d = 6 -> "6" [] d = 7 -> "7"
      [] d = 8 -> "8" [] d = 9 -> "9"

RECURSIVE OffsetToString(_)
OffsetToString(n) ==
    IF n < 10 THEN <<DigitChar(n)>>
    ELSE Append(OffsetToString(n \div 10), DigitChar(n % 10))

\* ------------------------------------------------------------------ pager
\* a + b on usize: above usize::MAX the addition panics in a build with
\* overflow checks and wraps around in a build without them
AddUsize(a, b) ==
    IF a + b <= UsizeMax
    THEN {[panic |-> FALSE, val |-> a + b]}
    ELSE {[panic |-> TRUE, val |-> 0],
          [panic |-> FALSE, val |-> (a + b) % (UsizeMax + 1)]}

Panicked == [panic |-> TRUE, slice |-> <<>>, next |-> 0]

\* a faulty variant of HandlersPage: the new offset is kept when it equals the
\* length
HandlersPageLe(results, offset) ==
    { IF s.panic THEN Panicked
      ELSE [panic |-> FALSE,
            slice |-> SubSeq(results, offset + 1,
                             Min(offset + PageSize, Len(results))),
            next  |-> IF s.val <= Len(results) THEN s.val ELSE 0]
      : s \in AddUsize(offset, PageSize) }

\* handlers.rs: results.iter().skip(offset).take(50), then the new offset
HandlersPage(results, offset) ==
    { IF s.panic THEN Panicked
      ELSE [panic |-> FALSE,
            slice |-> SubSeq(results, offset + 1,
                             Min(offset + PageSize, Len(results))),
            next  |-> IF s.val < Len(results) THEN s.val ELSE 0]
      : s \in AddUsize(offset, PageSize) }

\* main.rs: &results[offset..end] with end clamped to the length, then the
\* new offset; the slice panics when offset is above end
MainPage(results, offset) ==
    { IF s.panic THEN Panicked
      ELSE LET end == IF s.val > Len(results) THEN Len(results) ELSE s.val
           IN  IF offset > end THEN Panicked
               ELSE [panic |-> FALSE,
                     slice |-> SubSeq(results, offset + 1, end),
                     next  |-> IF s.val < Len(results) THEN s.val ELSE 0]
      : s \in AddUsize(offset, PageSize) }

Revs == {"handlers", "main"}

Page(r, results, offset) ==
    IF r = "handlers" THEN HandlersPage(results, offset)
    ELSE MainPage(results, offset)

\* ------------------------------------------------------- upstream results
\* Packages, reduced to the fields the cache and the pager look at
Pkg(i, p) == [id |-> i, popularity |-> p]

UpstreamLists ==
    { <<>>, <<Pkg(1, 3), Pkg(2, 9), Pkg(3, 1), Pkg(4, 3)>> }

\* AurResponse
ErrorResponse == [type |-> "error", error |-> "Query arg too small."]
\* AurResponse::Result as serde fills it: resultcount and results are two
\* fields of the payload, read independently of each other
Payload(count, results) ==
    [type |-> "search", resultcount |-> count, results |-> results]
\* the payload of an upstream whose resultcount is the length of its list
ResultResponse(results) == Payload(Len(results), results)
NoResponse == [type |-> "none"]

\* the search payloads the upstream sends; resultcount is what the upstream
\* wrote: the length of the list with the non-empty list, and 1 with the
\* empty one
UpstreamPayloads ==
    {Payload(IF l = <<>> THEN 1 ELSE Len(l), l) : l \in UpstreamLists}

\* what one call of search can end in. send() fails (no status), or it
\* returns a response of any status, which search does not look at; then
\* json() parses the body or fails. ok says that search returned a value
\* and did not panic in one of its two unwraps. A response with a status
\* other than 2xx carries an error payload or nothing that parses
SearchOutcomes ==
    {[ok |-> FALSE, status |-> "none", body |-> NoResponse]}
    \cup {[ok |-> FALSE, status |-> "non2xx", body |-> NoResponse]}
    \cup {[ok |-> TRUE, status |-> st, body |-> ErrorResponse] :
              st \in {"2xx", "non2xx"}}
    \cup {[ok |-> TRUE, status |-> "2xx", body |-> b] : b \in UpstreamPayloads}

\* --------------------------------------------------------------- sorting
\* b.popularity.partial_cmp(&a.popularity): x goes behind every element
\* that does not compare greater, so equal elements keep their order
RECURSIVE InsertStable(_, _)
InsertStable(sorted, x) ==
    IF sorted = <<>> THEN <<x>>
    ELSE IF Head(sorted).popularity >= x.popularity
         THEN <<Head(sorted)>> \o InsertStable(Tail(sorted), x)
         ELSE <<x>> \o sorted

RECURSIVE SortFrom(_, _)
SortFrom(sorted, rest) ==
    IF rest = <<>> THEN sorted
    ELSE SortFrom(InsertStable(sorted, Head(rest)), Tail(rest))

\* a faulty variant of SortByPopularity: equal popularities end in reverse order
RECURSIVE SortUnstable(_)
SortUnstable(results) ==
    IF results = <<>> THEN <<>>
    ELSE InsertStable(SortUnstable(Tail(results)), Head(results))

\* results.sort_by(..): a stable sort, popularity descending
SortByPopularity(results) == SortFrom(<<>>, results)

\* ------------------------------------------------------------ the program
Tasks == {1, 2}

\* the inline queries sent to the bot; main.rs knows no maintainer search,
\* to it a query with the prefix is one more text
Queries(r) ==
    IF r = "handlers"
    THEN { <<>>, Prefix, <<"a">>, Prefix \o <<"a">>, <<"m">> }
    ELSE { <<>>, Prefix, <<"a">> }

\* the offset texts of the inline queries of Spec: the first page, asked for
\* with an empty offset; every other offset text is served in PagerSpec
OffsetTexts == { <<>> }

\* the match on update.query (handlers.rs) and query.is_empty() (main.rs)
IsDegenerate(r, query) ==
    IF r = "handlers"
    THEN query \in { <<>>, <<"!">>, <<"!", "m">>, <<"!", "m", " ">> }
    ELSE query = <<>>

\* the Search handed to cached_search; main.rs hands the raw query on
SearchOf(r, query) ==
    IF r = "handlers" THEN SearchFrom(query)
    ELSE [kind |-> "Package", text |-> query]

\* the String cache.get(&query) and cache.insert(query.clone(), ..) see: the
\* Search derefs to its text
CacheKey(search) == Deref(search)

Ttl(r) == IF r = "handlers" THEN CacheTtl ELSE MainTtl

\* the clock advances in steps of half a TTL
TickLen(r) == Ttl(r) \div 2

KeyTexts == UNION {{CacheKey(SearchOf(r, q)) : q \in Queries(r)} : r \in Revs}

VARIABLES
    rev,        \* which handler serves: "handlers" (with request.rs) or "main"
    now,        \* the clock, in seconds
    cache,      \* utils.cache: key text -> entry or NoEntry
    started,    \* inline queries received so far
    pc,         \* per task: where its handler stands
    req,        \* per task: the InlineQuery (query, offset)
    guard,      \* per task: what the returned CacheEntryReadGuard derefs to
    ans,        \* per task: the answer sent with answer_inline_query
    hist,       \* per task: what happened in this request (history)
    lastDone,   \* the entry the last completed cached_search read (history)
    raw, key,               \* KeySpec: the typed query and its Search
    pgValue, pgText, pgOut, \* PagerSpec: response, offset text, outcome
    escIn, escOut,          \* EscSpec: a field of the payload, and as parsed
    wkItems,    \* WalkSpec: the cached result list
    wkText,     \* WalkSpec: the offset text of the next inline query
    wkPages,    \* WalkSpec: answers received so far
    wkSeen,     \* WalkSpec: the packages of those answers, in order
    wkState     \* WalkSpec: "build", "walk", "end" or "panicked"

mainVars == <<rev, now, cache, started, pc, req, guard, ans,
              hist, lastDone>>
keyVars == <<raw, key>>
pagerVars == <<pgValue, pgText, pgOut>>
escVars == <<escIn, escOut>>
walkVars == <<wkItems, wkText, wkPages, wkSeen, wkState>>
vars == <<mainVars, keyVars, pagerVars, escVars, walkVars>>

NoEntry == [absent |-> TRUE]
NoAnswer == [sent |-> FALSE]
NoOutcome == [rev |-> "none"]
\* calls: upstream calls made; inserts: cache inserts made; own: the response
\* the task inserted; status: the status of the upstream response; upfail:
\* search panicked; prior: what the last completed cached_search on this key
\* returned, when its entry is still live
NoHist == [calls |-> 0, inserts |-> 0, own |-> NoResponse, status |-> "none",
           upfail |-> FALSE, prior |-> NoResponse]

IsExpired(e) == now >= e.expires

\* retainer Cache::get: the entry under k unless absent or expired
CacheGet(k) ==
    IF cache[k] # NoEntry /\ ~IsExpired(cache[k]) THEN cache[k] ELSE NoEntry

\* retainer Cache::insert: the entry under k is replaced as a whole
CacheInsert(k, e) == [cache EXCEPT ![k] = e]

Init ==
    /\ rev \in Revs
    /\ now = 0
    /\ cache = [k \in KeyTexts |-> NoEntry]
    /\ started = 0
    /\ pc = [t \in Tasks |-> "idle"]
    /\ req = [t \in Tasks |-> [query |-> <<>>, offset |-> <<>>]]
    /\ guard = [t \in Tasks |-> NoResponse]
    /\ ans = [t \in Tasks |-> NoAnswer]
    /\ hist = [t \in Tasks |-> NoHist]
    /\ lastDone = NoEntry
    /\ raw = <<>>
    /\ key = SearchFrom(<<>>)
    /\ pgValue = ResultResponse(<<>>)
    /\ pgText = <<>>
    /\ pgOut = NoOutcome
    /\ escIn = TextField(<<>>)
    /\ escOut = NullToNone(TextField(<<>>))
    /\ wkItems = <<>>
    /\ wkText = <<>>
    /\ wkPages = 0
    /\ wkSeen = <<>>
    /\ wkState = "build"

\* ------------------------------------------------------------- rendering
PackageItem(p) == [id |-> p.id, title |-> "package", popularity |-> p.popularity]
ErrorItem(msg) == [id |-> 1, title |-> msg]
NoResultItem == [id |-> 1, title |-> "No result found"]

RECURSIVE MapItems(_)
MapItems(slice) ==
    IF slice = <<>> THEN <<>>
    ELSE <<PackageItem(Head(slice))>> \o MapItems(Tail(slice))

\* req_builder.next_offset(..) only when the offset is not 0
Token(offset) == IF offset # 0 THEN <<offset>> ELSE <<>>

Sent(items, offset) ==
    [sent |-> TRUE, button |-> FALSE, items |-> items, token |-> Token(offset)]

\* the answer to a degenerate query: no items, the "Type to search" button
TypeToSearch == [sent |-> TRUE, button |-> TRUE, items |-> <<>>, token |-> <<>>]

\* the answer built from page o of a Result: NoAnswer when the page
\* panicked; handlers.rs puts "No result found" in an empty answer
ResultAnswer(r, o) ==
    IF o.panic THEN NoAnswer
    ELSE IF r = "handlers" /\ o.slice = <<>> THEN Sent(<<NoResultItem>>, o.next)
    ELSE Sent(MapItems(o.slice), o.next)

\* the answer built from an Error: the offset stays as the caller sent it
ErrorAnswer(value, offset) == Sent(<<ErrorItem(value.error)>>, offset)

\* the match on the response and the answers it can end in
Answers(r, value, offset) ==
    IF value.type = "error"
    THEN {ErrorAnswer(value, offset)}
    ELSE {ResultAnswer(r, o) : o \in Page(r, value.results, offset)}

\* ----------------------------------------------------------------- steps
MyKey(t) == CacheKey(SearchOf(rev, req[t].query))

\* cached_search returns the guard of entry e read under k
Returned(k, e) == [key |-> k, value |-> e.value, expires |-> e.expires]

\* the rest of the handler once cached_search has returned value: the page,
\* the items, answer_inline_query; a is the answer sent, NoAnswer on a panic
Complete(t, value, offset, a) ==
    /\ a \in Answers(rev, value, ParseOffset(offset))
    /\ guard' = [guard EXCEPT ![t] = value]
    /\ ans' = [ans EXCEPT ![t] = a]
    /\ pc' = [pc EXCEPT ![t] = IF a.sent THEN "done" ELSE "panicked"]

\* the completions a handler can pick from in the current state
Completions ==
    {NoAnswer} \cup
    UNION { Answers(rev, e.value, ParseOffset(o)) :
              e \in {cache[k] : k \in KeyTexts} \ {NoEntry}, o \in OffsetTexts }

\* a faulty variant of Lookup: the cache is not asked, every call goes on to search
LookupAlwaysMiss(t, query, offset, a) ==
    /\ a = NoAnswer
    /\ pc' = [pc EXCEPT ![t] = "fetch"]
    /\ UNCHANGED <<guard, ans, hist, lastDone>>

\* a faulty variant of Lookup: an entry is returned whether or not it has expired
LookupStale(t, query, offset, a) ==
    LET k == CacheKey(SearchOf(rev, query))
    IN  IF cache[k] # NoEntry
        THEN /\ Complete(t, cache[k].value, offset, a)
             /\ lastDone' = Returned(k, cache[k])
             /\ UNCHANGED hist
        ELSE /\ a = NoAnswer
             /\ pc' = [pc EXCEPT ![t] = "fetch"]
             /\ UNCHANGED <<guard, ans, hist, lastDone>>

\* cached_search, entered: utils.cache.get(&query); a hit returns the guard
\* and the handler goes on to its answer, a miss goes on to search
Lookup(t, query, offset, a) ==
    LET k == CacheKey(SearchOf(rev, query))
        e == CacheGet(k)
        prior == IF /\ lastDone # NoEntry
                    /\ lastDone.key = k
                    /\ now < lastDone.expires
                 THEN lastDone.value ELSE NoResponse
    IN  IF e # NoEntry
        THEN /\ Complete(t, e.value, offset, a)
             /\ hist' = [hist EXCEPT ![t] = [@ EXCEPT !.prior = prior]]
             /\ lastDone' = Returned(k, e)
        ELSE /\ a = NoAnswer
             /\ pc' = [pc EXCEPT ![t] = "fetch"]
             /\ hist' = [hist EXCEPT ![t] = [@ EXCEPT !.prior = prior]]
             /\ UNCHANGED <<guard, ans, lastDone>>

\* the handler is entered by the lowest idle task: a degenerate query is
\* answered at once, any other goes into cached_search
Receive(t, query, offset, a) ==
    /\ pc[t] = "idle"
    /\ \A u \in Tasks : u < t => pc[u] # "idle"
    /\ started < MaxRequests
    /\ started' = started + 1
    /\ req' = [req EXCEPT ![t] = [query |-> query, offset |-> offset]]
    /\ IF IsDegenerate(rev, query)
       THEN /\ a = NoAnswer
            /\ ans' = [ans EXCEPT ![t] = TypeToSearch]
            /\ pc' = [pc EXCEPT ![t] = "done"]
            /\ UNCHANGED <<guard, hist, lastDone>>
       ELSE Lookup(t, query, offset, a)
    /\ UNCHANGED <<rev, now, cache>>

\* what cached_search does with the response before it inserts it:
\* request.rs sorts a Result, main.rs inserts the response as it came
PostProcess(r, body) ==
    IF r = "handlers" /\ body.type = "search"
    THEN [body EXCEPT !.results = SortByPopularity(body.results)]
    ELSE body

\* a faulty variant of Fetch: the upstream calls are serialized, a task calls
\* upstream only while no task before it has a call in flight
FetchSerialized(t, out) ==
    /\ pc[t] = "fetch"
    /\ \A u \in Tasks : u < t => pc[u] # "fetch"
    /\ IF out.ok
       THEN /\ cache' = CacheInsert(MyKey(t),
                           [value |-> PostProcess(rev, out.body),
                            at |-> now,
                            expires |-> now + Ttl(rev),
                            kind |-> SearchOf(rev, req[t].query).kind,
                            upstream |-> out.body])
            /\ pc' = [pc EXCEPT ![t] = "reread"]
            /\ hist' = [hist EXCEPT ![t] =
                           [@ EXCEPT !.calls = @ + 1, !.inserts = @ + 1,
                                     !.status = out.status,
                                     !.own = PostProcess(rev, out.body)]]
       ELSE /\ cache' = cache
            /\ pc' = [pc EXCEPT ![t] = "panicked"]
            /\ hist' = [hist EXCEPT ![t] =
                           [@ EXCEPT !.calls = @ + 1, !.upfail = TRUE,
                                     !.status = out.status]]
    /\ UNCHANGED <<rev, now, started, req, guard, ans, lastDone>>

\* a faulty variant of Fetch: the insert drops the entries of the other keys
FetchWipes(t, out) ==
    /\ pc[t] = "fetch"
    /\ IF out.ok
       THEN /\ cache' = [k \in KeyTexts |->
                           IF k = MyKey(t)
                           THEN [value |-> PostProcess(rev, out.body),
                                 at |-> now,
                                 expires |-> now + Ttl(rev),
                                 kind |-> SearchOf(rev, req[t].query).kind,
                                 upstream |-> out.body]
                           ELSE NoEntry]
            /\ pc' = [pc EXCEPT ![t] = "reread"]
            /\ hist' = [hist EXCEPT ![t] =
                           [@ EXCEPT !.calls = @ + 1, !.inserts = @ + 1,
                                     !.status = out.status,
                                     !.own = PostProcess(rev, out.body)]]
       ELSE /\ cache' = cache
            /\ pc' = [pc EXCEPT ![t] = "panicked"]
            /\ hist' = [hist EXCEPT ![t] =
                           [@ EXCEPT !.calls = @ + 1, !.upfail = TRUE,
                                     !.status = out.status]]
    /\ UNCHANGED <<rev, now, started, req, guard, ans, lastDone>>

\* the miss path of cached_search up to its insert: one upstream call by
\* search(&utils.client, &query), where a failed send or parse panics in
\* unwrap; the sort; utils.cache.insert(query.clone(), response, ttl)
Fetch(t, out) ==
    /\ pc[t] = "fetch"
    /\ IF out.ok
       THEN /\ cache' = CacheInsert(MyKey(t),
                           [value |-> PostProcess(rev, out.body),
                            at |-> now,
                            expires |-> now + Ttl(rev),
                            kind |-> SearchOf(rev, req[t].query).kind,
                            upstream |-> out.body])
            /\ pc' = [pc EXCEPT ![t] = "reread"]
            /\ hist' = [hist EXCEPT ![t] =
                           [@ EXCEPT !.calls = @ + 1, !.inserts = @ + 1,
                                     !.status = out.status,
                                     !.own = PostProcess(rev, out.body)]]
       ELSE /\ cache' = cache
            /\ pc' = [pc EXCEPT ![t] = "panicked"]
            /\ hist' = [hist EXCEPT ![t] =
                           [@ EXCEPT !.calls = @ + 1, !.upfail = TRUE,
                                     !.status = out.status]]
    /\ UNCHANGED <<rev, now, started, req, guard, ans, lastDone>>

\* a faulty variant of Reread: the response the task itself inserted is returned
RereadLocal(t, a) ==
    /\ pc[t] = "reread"
    /\ LET k == MyKey(t)
           e == CacheGet(k)
       IN  IF e # NoEntry
           THEN /\ Complete(t, hist[t].own, req[t].offset, a)
                /\ lastDone' = Returned(k, e)
           ELSE /\ a = NoAnswer
                /\ pc' = [pc EXCEPT ![t] = "panicked"]
                /\ UNCHANGED <<guard, ans, lastDone>>
    /\ hist' = [hist EXCEPT ![t] = [@ EXCEPT !.status = "none"]]
    /\ UNCHANGED <<rev, now, cache, started, req>>

\* utils.cache.get(&query).await.unwrap(), and the handler's answer; the
\* response of search is dropped here and its record in hist with it
Reread(t, a) ==
    /\ pc[t] = "reread"
    /\ LET k == MyKey(t)
           e == CacheGet(k)
       IN  IF e # NoEntry
           THEN /\ Complete(t, e.value, req[t].offset, a)
                /\ lastDone' = Returned(k, e)
           ELSE /\ a = NoAnswer
                /\ pc' = [pc EXCEPT ![t] = "panicked"]
                /\ UNCHANGED <<guard, ans, lastDone>>
    /\ hist' = [hist EXCEPT ![t] = [@ EXCEPT !.status = "none"]]
    /\ UNCHANGED <<rev, now, cache, started, req>>

\* the handler has returned; the task takes the next inline query
Return(t) ==
    /\ pc[t] = "done"
    /\ pc' = [pc EXCEPT ![t] = "idle"]
    /\ req' = [req EXCEPT ![t] = [query |-> <<>>, offset |-> <<>>]]
    /\ guard' = [guard EXCEPT ![t] = NoResponse]
    /\ ans' = [ans EXCEPT ![t] = NoAnswer]
    /\ hist' = [hist EXCEPT ![t] = NoHist]
    /\ UNCHANGED <<rev, now, cache, started, lastDone>>

\* time passes
Tick ==
    /\ now + TickLen(rev) <= MaxTicks * TickLen(rev)
    /\ now' = now + TickLen(rev)
    /\ UNCHANGED <<rev, cache, started, pc, req, guard, ans,
                   hist, lastDone>>

\* one cycle of cache.monitor(4, 0.25, 3 s): some of the expired entries
\* (those the sample holds) are removed
Sweep(gone) ==
    /\ gone # {}
    /\ \A k \in gone : cache[k] # NoEntry /\ IsExpired(cache[k])
    /\ cache' = [k \in KeyTexts |-> IF k \in gone THEN NoEntry ELSE cache[k]]
    /\ UNCHANGED <<rev, now, started, pc, req, guard, ans,
                   hist, lastDone>>

Next ==
    \/ \E t \in Tasks, q \in Queries(rev), o \in OffsetTexts, a \in Completions :
           Receive(t, q, o, a) /\ UNCHANGED <<keyVars, pagerVars, escVars, walkVars>>
    \/ \E t \in Tasks, out \in SearchOutcomes :
           Fetch(t, out) /\ UNCHANGED <<keyVars, pagerVars, escVars, walkVars>>
    \/ \E t \in Tasks, a \in Completions :
           Reread(t, a) /\ UNCHANGED <<keyVars, pagerVars, escVars, walkVars>>
    \/ \E t \in Tasks : Return(t) /\ UNCHANGED <<keyVars, pagerVars, escVars, walkVars>>
    \/ Tick /\ UNCHANGED <<keyVars, pagerVars, escVars, walkVars>>
    \/ \E gone \in SUBSET KeyTexts :
           Sweep(gone) /\ UNCHANGED <<keyVars, pagerVars, escVars, walkVars>>

Spec == Init /\ [][Next]_vars

\* --------------------------------------------------------------- HungSpec
\* the task whose upstream call never returns
HungTask == 1

\* the program while the upstream call of HungTask hangs: its Fetch step is
\* never taken, every other step is as in Next
HungNext ==
    \/ \E t \in Tasks, q \in Queries(rev), o \in OffsetTexts, a \in Completions :
           Receive(t, q, o, a) /\ UNCHANGED <<keyVars, pagerVars, escVars, walkVars>>
    \/ \E t \in Tasks \ {HungTask}, out \in SearchOutcomes :
           Fetch(t, out) /\ UNCHANGED <<keyVars, pagerVars, escVars, walkVars>>
    \/ \E t \in Tasks, a \in Completions :
           Reread(t, a) /\ UNCHANGED <<keyVars, pagerVars, escVars, walkVars>>
    \/ \E t \in Tasks : Return(t) /\ UNCHANGED <<keyVars, pagerVars, escVars, walkVars>>
    \/ Tick /\ UNCHANGED <<keyVars, pagerVars, escVars, walkVars>>
    \/ \E gone \in SUBSET KeyTexts :
           Sweep(gone) /\ UNCHANGED <<keyVars, pagerVars, escVars, walkVars>>

\* for_each_concurrent polls every handler future that can go on: the
\* upstream calls of the other tasks return, and a task that has inserted
\* goes on to its re-read
HungFair ==
    /\ \A t \in Tasks \ {HungTask} :
           WF_vars(\E out \in SearchOutcomes :
                       Fetch(t, out) /\ UNCHANGED <<keyVars, pagerVars, escVars, walkVars>>)
    /\ \A t \in Tasks :
           WF_vars(\E a \in Completions :
                       Reread(t, a) /\ UNCHANGED <<keyVars, pagerVars, escVars, walkVars>>)

HungSpec == Init /\ [][HungNext]_vars /\ HungFair

\* ---------------------------------------------------------------- KeySpec
\* Search::from on every query text over Chars up to MaxLen characters
KeyType(c) ==
    /\ Len(raw) < MaxLen
    /\ raw' = Append(raw, c)
    /\ key' = SearchFrom(raw')

KeyNext == \E c \in Chars : KeyType(c) /\ UNCHANGED <<mainVars, pagerVars, escVars, walkVars>>

KeySpec == Init /\ [][KeyNext]_vars

\* -------------------------------------------------------------- PagerSpec
\* the handler's answer for every response (an Error, or a Result of up to
\* MaxItems packages) and every offset text up to MaxOffsetLen characters
PgGrow ==
    /\ pgValue.type = "search"
    /\ Len(pgValue.results) < MaxItems
    /\ pgValue' = ResultResponse(
                      Append(pgValue.results, Pkg(Len(pgValue.results) + 1, 1)))
    /\ pgOut' = NoOutcome
    /\ UNCHANGED pgText

PgError ==
    /\ pgValue = ResultResponse(<<>>)
    /\ pgValue' = ErrorResponse
    /\ pgOut' = NoOutcome
    /\ UNCHANGED pgText

PgType(c) ==
    /\ Len(pgText) < MaxOffsetLen
    /\ pgText' = Append(pgText, c)
    /\ pgOut' = NoOutcome
    /\ UNCHANGED pgValue

\* one handler serves the response pgValue at the offset text pgText
PgServe(r) ==
    /\ pgOut = NoOutcome
    /\ LET offset == ParseOffset(pgText)
       IN  IF pgValue.type = "error"
           THEN pgOut' = [rev |-> r, offset |-> offset, paged |-> FALSE,
                          page |-> Panicked,
                          ans |-> ErrorAnswer(pgValue, offset)]
           ELSE \E o \in Page(r, pgValue.results, offset) :
                    pgOut' = [rev |-> r, offset |-> offset, paged |-> TRUE,
                              page |-> o, ans |-> ResultAnswer(r, o)]
    /\ UNCHANGED <<pgValue, pgText>>

PagerNext ==
    \/ PgGrow /\ UNCHANGED <<mainVars, keyVars, escVars, walkVars>>
    \/ PgError /\ UNCHANGED <<mainVars, keyVars, escVars, walkVars>>
    \/ \E c \in OffsetChars : PgType(c) /\ UNCHANGED <<mainVars, keyVars, escVars, walkVars>>
    \/ \E r \in Revs : PgServe(r) /\ UNCHANGED <<mainVars, keyVars, escVars, walkVars>>

PagerSpec == Init /\ [][PagerNext]_vars

\* ---------------------------------------------------------------- EscSpec
\* null_to_none on null and on every string over EscChars up to MaxLen
\* characters
EscType(c) ==
    /\ ~escIn.null
    /\ Len(escIn.text) < MaxLen
    /\ escIn' = TextField(Append(escIn.text, c))
    /\ escOut' = NullToNone(escIn')

EscNull ==
    /\ escIn = TextField(<<>>)
    /\ escIn' = NullField
    /\ escOut' = NullToNone(NullField)

EscNext ==
    \/ \E c \in EscChars :
           EscType(c) /\ UNCHANGED <<mainVars, keyVars, pagerVars, walkVars>>
    \/ EscNull /\ UNCHANGED <<mainVars, keyVars, pagerVars, walkVars>>

EscSpec == Init /\ [][EscNext]_vars

\* --------------------------------------------------------------- WalkSpec
\* a client pages through one cached Result of up to MaxItems packages: it
\* starts with an empty offset text and sends each token back as the offset
\* of its next inline query, until an answer carries no token
WkGrow ==
    /\ wkState = "build"
    /\ Len(wkItems) < MaxItems
    /\ wkItems' = Append(wkItems, Pkg(Len(wkItems) + 1, 1))
    /\ UNCHANGED <<wkText, wkPages, wkSeen, wkState>>

\* the handler answers the inline query at offset text wkText
WkServe ==
    /\ wkState \in {"build", "walk"}
    /\ \E o \in Page(rev, wkItems, ParseOffset(wkText)) :
           LET a == ResultAnswer(rev, o)
           IN  IF ~a.sent
               THEN /\ wkState' = "panicked"
                    /\ UNCHANGED <<wkText, wkPages, wkSeen>>
               ELSE /\ wkPages' = wkPages + 1
                    /\ wkSeen' = wkSeen \o o.slice
                    /\ IF a.token = <<>>
                       THEN wkState' = "end" /\ wkText' = wkText
                       ELSE wkState' = "walk" /\ wkText' = OffsetToString(a.token[1])
    /\ UNCHANGED wkItems

WalkNext ==
    \/ WkGrow /\ UNCHANGED <<mainVars, keyVars, pagerVars, escVars>>
    \/ WkServe /\ UNCHANGED <<mainVars, keyVars, pagerVars, escVars>>

WalkSpec == Init /\ [][WalkNext]_vars

\* ------------------------------------------------------------------ claims
\* task t enters its handler in this step
Enters(t) == pc[t] = "idle" /\ pc'[t] # "idle"

\* cached_search of task t returns in this step, with a guard
Returns(t) == pc[t] \in {"idle", "reread"} /\ guard[t] = NoResponse
                 /\ guard'[t] # NoResponse

\* the Search and the key text of the query task t has after this step
Search1(t) == SearchOf(rev, req'[t].query)
Key1(t) == CacheKey(Search1(t))

\* C1 (as claimed): a query that starts with "!m " gives Maintainer with the
\* query less its first three characters, every other query gives Package
\* with the query unchanged
C1_KeyStripsPrefixOnly ==
    IF StartsWith(raw, Prefix)
    THEN key = [kind |-> "Maintainer", text |-> Drop(raw, 3)]
    ELSE key = [kind |-> "Package", text |-> raw]

\* C2 (as claimed): the by-name query t and the maintainer query "!m " + t
\* have different cache keys, so the entry a cached_search returns was
\* inserted for a Search of its own variant
C2_LookupNeverCrossesVariants ==
    [][\A t \in Tasks :
          Returns(t) => cache[Key1(t)].kind = Search1(t).kind]_vars

C4_ExpiredNeverReturned ==
    [][\A t \in Tasks :
          /\ ( /\ Enters(t)
               /\ ~IsDegenerate(rev, req'[t].query)
               /\ cache[Key1(t)] # NoEntry
               /\ now >= cache[Key1(t)].at + Ttl(rev) )
             => pc'[t] = "fetch" /\ guard'[t] = NoResponse
          /\ Returns(t) => now < cache[Key1(t)].at + Ttl(rev)
          /\ (pc[t] = "fetch" /\ pc'[t] # "fetch")
             => hist'[t].calls = hist[t].calls + 1]_vars

\* an expired entry the janitor has not removed: the lookup missed on it and
\* the task is about to call upstream again
C4_Witness ==
    \E t \in Tasks :
        /\ pc[t] = "fetch"
        /\ cache[MyKey(t)] # NoEntry
        /\ now >= cache[MyKey(t)].at + Ttl(rev)

\* C5 (as claimed): for every result list and offset the page is
\* items[offset .. min(offset + 50, N)] and next_offset is offset + 50 when
\* that is below N, else 0
C5_PageSlice ==
    (pgOut # NoOutcome /\ pgOut.paged) =>
        LET items == pgValue.results
            N == Len(items)
            off == pgOut.offset
        IN  /\ ~pgOut.page.panic
            /\ pgOut.page.slice = SubSeq(items, off + 1, Min(off + PageSize, N))
            /\ pgOut.page.next = IF off + PageSize < N THEN off + PageSize ELSE 0

\* C6 (as claimed): an offset at or past the end gives an empty page, next
\* offset 0 and an answer; offset text that is no number counts as 0
C6_OffsetPastEnd ==
    (pgOut # NoOutcome /\ pgOut.paged) =>
        /\ ParseUsize(pgText) = ParseErr => pgOut.offset = 0
        /\ pgOut.offset >= Len(pgValue.results) =>
              /\ ~pgOut.page.panic
              /\ pgOut.page.slice = <<>>
              /\ pgOut.page.next = 0
              /\ pgOut.ans.sent

\* the place of package x in list u
Pos(u, x) == CHOOSE i \in 1..Len(u) : u[i] = x

\* C7: every Result request.rs stores holds the packages the upstream sent,
\* popularity descending, equal popularities in upstream order
C7_StoredSorted ==
    rev = "handlers" =>
        \A k \in KeyTexts :
            (cache[k] # NoEntry /\ cache[k].value.type = "search") =>
                LET r == cache[k].value.results
                    u == cache[k].upstream.results
                IN  /\ Len(r) = Len(u)
                    /\ {r[i] : i \in 1..Len(r)} = {u[i] : i \in 1..Len(u)}
                    /\ \A i, j \in 1..Len(r) :
                          i < j =>
                              /\ r[i].popularity >= r[j].popularity
                              /\ r[i].popularity = r[j].popularity
                                    => Pos(u, r[i]) < Pos(u, r[j])

\* upstream popularities 3, 9, 1, 3 are stored as 9, 3, 3, 1, the two
\* packages of popularity 3 in upstream order
C7_Witness ==
    \E k \in KeyTexts :
        /\ rev = "handlers"
        /\ cache[k] # NoEntry
        /\ cache[k].upstream =
              ResultResponse(<<Pkg(1, 3), Pkg(2, 9), Pkg(3, 1), Pkg(4, 3)>>)
        /\ cache[k].value.results =
              <<Pkg(2, 9), Pkg(1, 3), Pkg(4, 3), Pkg(3, 1)>>

\* C8 (as claimed): whatever way the upstream call fails, the handler
\* completes and answers with exactly one item
C8_UpstreamFailureAnswered ==
    \A t \in Tasks :
        /\ hist[t].upfail =>
              pc[t] = "done" /\ ans[t].sent /\ Len(ans[t].items) = 1
        /\ (pc[t] = "done" /\ guard[t].type = "error") =>
              ans[t].sent /\ Len(ans[t].items) = 1

\* C9 (as claimed): when two cached_search calls for the same Search are
\* both on the miss path, a caller that re-reads returns without failure,
\* and what it returns is the stored entry, fetched for its own Search
C9_ConcurrentMissBenign ==
    [][\A t, u \in Tasks :
          ( /\ t # u
            /\ pc[t] = "reread"
            /\ pc'[t] # "reread"
            /\ pc[u] \in {"fetch", "reread"}
            /\ SearchOf(rev, req[u].query) = SearchOf(rev, req[t].query) )
          => /\ pc'[t] = "done"
             /\ guard'[t] = cache[Key1(t)].value
             /\ cache[Key1(t)].kind = Search1(t).kind]_vars

\* C10 (as claimed): the empty query and the maintainer prefix alone are
\* answered with no items and the "type to search" button, without a cache
\* lookup, an insert or an upstream call
C10_DegenerateShortCircuits ==
    \A t \in Tasks :
        (pc[t] # "idle" /\ req[t].query \in { <<>>, Prefix }) =>
            /\ pc[t] = "done"
            /\ ans[t] = TypeToSearch
            /\ guard[t] = NoResponse
            /\ hist[t] = NoHist

\* C11 (as claimed): in every stored Result the resultcount is the number of
\* packages in the stored list
C11_TotalCountIsLength ==
    \A k \in KeyTexts :
        (cache[k] # NoEntry /\ cache[k].value.type = "search") =>
            cache[k].value.resultcount = Len(cache[k].value.results)

\* C12 (as claimed): the answer handlers.rs sends carries a token exactly
\* when the pager's next offset for the result's list (no list, for an
\* Error) and the caller's offset is not 0, and the token is that offset
C12_TokenIsNextOffset ==
    (pgOut # NoOutcome /\ pgOut.rev = "handlers" /\ pgOut.ans.sent) =>
        LET n == IF pgValue.type = "search" THEN Len(pgValue.results) ELSE 0
            next == IF pgOut.offset + PageSize < n
                    THEN pgOut.offset + PageSize ELSE 0
        IN  pgOut.ans.token = Token(next)

\* the items claimed for the response v served at offset: one error item
\* with the upstream message, or one "no results" item, or one item per
\* package of the page in stored order
RenderedAsClaimed(v, offset, items) ==
    IF v.type = "error"
    THEN items = <<[id |-> 1, title |-> v.error]>>
    ELSE LET slice == SubSeq(v.results, offset + 1,
                             Min(offset + PageSize, Len(v.results)))
         IN  IF slice = <<>>
             THEN items = <<[id |-> 1, title |-> "No result found"]>>
             ELSE /\ Len(items) = Len(slice)
                  /\ \A i \in 1..Len(slice) : items[i].id = slice[i].id

\* C13 (as claimed): handlers.rs answers every response with items, and
\* they are the claimed ones
C13_RenderedNeverEmpty ==
    (pgOut # NoOutcome /\ pgOut.rev = "handlers") =>
        /\ pgOut.ans.sent
        /\ pgOut.ans.items # <<>>
        /\ RenderedAsClaimed(pgValue, pgOut.offset, pgOut.ans.items)

\* C14: while the upstream call of one task hangs, every other task that
\* is in cached_search, on the miss path, gets to the end of its handler
C14_HungCallHangsAlone ==
    \A t \in Tasks \ {HungTask} :
        (pc[HungTask] = "fetch" /\ pc[t] \in {"fetch", "reread"})
            ~> (pc[t] \in {"done", "panicked"})

\* a miss on another key has been served to the end while the call of
\* HungTask is in flight
C14_Witness ==
    \E t \in Tasks \ {HungTask} :
        /\ pc[HungTask] = "fetch"
        /\ pc[t] = "done"
        /\ hist[t].calls = 1
        /\ MyKey(t) # MyKey(HungTask)
        /\ ans[t].sent

\* what the claim gives for a string: each of < > & replaced by its
\* entity, every other character kept, in order
RECURSIVE Entities(_)
Entities(s) ==
    IF s = <<>> THEN <<>>
    ELSE (IF Head(s) = "<" THEN <<"&", "l", "t", ";">>
          ELSE IF Head(s) = ">" THEN <<"&", "g", "t", ";">>
          ELSE IF Head(s) = "&" THEN <<"&", "a", "m", "p", ";">>
          ELSE <<Head(s)>>) \o Entities(Tail(s))

\* C15: a null field is parsed to "None", a string to itself with every
\* < > & replaced by &lt; &gt; &amp;
C15_FieldEscaped ==
    escOut = IF escIn.null THEN <<"N", "o", "n", "e">> ELSE Entities(escIn.text)

\* "a<a>a&a" has been parsed to "a&lt;a&gt;a&amp;a"
C15_Witness ==
    /\ escIn = TextField(<<"a", "<", "a", ">", "a", "&", "a">>)
    /\ escOut = <<"a", "&", "l", "t", ";", "a", "&", "g", "t", ";",
                  "a", "&", "a", "m", "p", ";", "a">>

\* C16: a hit writes nothing and calls nothing; a miss that gets a response
\* makes one upstream call and one insert, under the key it looked up, and
\* leaves every other key's entry as it was; the re-read writes nothing
C16_CacheWritesOfCachedSearch ==
    [][\A t \in Tasks :
          /\ (Enters(t) /\ guard'[t] # NoResponse) =>
                 /\ cache' = cache
                 /\ hist'[t].calls = 0
                 /\ hist'[t].inserts = 0
          /\ (pc[t] = "fetch" /\ pc'[t] = "reread") =>
                 /\ hist'[t].calls = 1
                 /\ hist'[t].inserts = 1
                 /\ cache'[MyKey(t)] # NoEntry
                 /\ cache'[MyKey(t)].value = hist'[t].own
                 /\ \A k \in KeyTexts \ {MyKey(t)} : cache'[k] = cache[k]
          /\ (pc[t] = "reread" /\ pc'[t] # "reread") =>
                 /\ cache' = cache
                 /\ hist'[t].calls = hist[t].calls
                 /\ hist'[t].inserts = hist[t].inserts]_vars

\* a miss has inserted while another key's entry is in the cache
C16_Witness ==
    \E t \in Tasks :
        /\ pc[t] = "reread"
        /\ hist[t].calls = 1
        /\ hist[t].inserts = 1
        /\ \E k \in KeyTexts \ {MyKey(t)} : cache[k] # NoEntry

\* C17 (as claimed): when the upstream call ends in a failed send, a status
\* other than 2xx or a payload that does not parse, cached_search leaves
\* the cache as it was and returns nothing
C17_NoInsertOnTransportFailure ==
    [][\A t \in Tasks :
          ( /\ pc[t] = "fetch"
            /\ pc'[t] # "fetch"
            /\ hist'[t].upfail \/ hist'[t].status = "non2xx" )
          => /\ cache' = cache
             /\ hist'[t].inserts = 0
             /\ guard'[t] = NoResponse
             /\ pc'[t] = "panicked"]_vars

\* C18: the re-read after the insert returns what the cache holds under the
\* key at that moment and leaves it there, and a caller that finds the key
\* afterwards is given what the cache holds under it then
C18_ReturnsStoredValue ==
    [][\A t \in Tasks :
          /\ (pc[t] = "reread" /\ guard'[t] # NoResponse) =>
                 /\ guard'[t] = cache[MyKey(t)].value
                 /\ cache'[MyKey(t)] = cache[MyKey(t)]
          /\ (Enters(t) /\ guard'[t] # NoResponse) =>
                 guard'[t] = cache[Key1(t)].value]_vars

\* a miss has returned the stored response of another caller's insert, not
\* the response it fetched and inserted itself
C18_Witness ==
    \E t \in Tasks :
        /\ pc[t] = "done"
        /\ hist[t].calls = 1
        /\ hist[t].own # NoResponse
        /\ guard[t] # hist[t].own
        /\ cache[MyKey(t)] # NoEntry
        /\ guard[t] = cache[MyKey(t)].value

\* C19 (as claimed): the get that follows the insert finds an entry,
\* whatever sweeps, other inserts and time came in between
C19_RereadFindsEntry ==
    [][\A t \in Tasks :
          (pc[t] = "reread" /\ pc'[t] # "reread") =>
              /\ CacheGet(MyKey(t)) # NoEntry
              /\ guard'[t] # NoResponse
              /\ pc'[t] # "panicked"]_vars

\* ceil(n / 50), and one page for an empty list
PagesOf(n) == IF n = 0 THEN 1 ELSE (n + PageSize - 1) \div PageSize

\* C20: following the tokens from the empty offset never fails, takes no
\* more than ceil(N / 50) answers, and when an answer carries no token
\* exactly that many have come and their packages, put together, are the
\* stored list
C20_WalkCoversList ==
    /\ wkState # "panicked"
    /\ wkPages <= PagesOf(Len(wkItems))
    /\ wkState = "walk" => wkPages < PagesOf(Len(wkItems))
    /\ wkState = "end" =>
           /\ wkPages = PagesOf(Len(wkItems))
           /\ wkSeen = wkItems

\* handlers.rs has served a list of 101 packages in three answers
C20_Witness ==
    /\ rev = "handlers"
    /\ wkState = "end"
    /\ Len(wkItems) = 2 * PageSize + 1
    /\ wkPages = 3
    /\ wkSeen = wkItems

====
